---- MODULE Spec2Model ----
(***************************************************************************)
(* tiny-panda: Series (src/src/core/series.ts, second class, lines 82-293)  *)
(* and DataFrame (src/unnamed/part_002).                                    *)
(*                                                                          *)
(* JavaScript values are records [t, n, d, s]: t is the typeof tag          *)
(* ("number", "string", "null", "undefined"), a number is the rational n/d  *)
(* (d = 0 encodes NaN for n = 0 and +/-Infinity for n = 1/-1), s is the     *)
(* text of a string.  A JavaScript object is the sequence of its own        *)
(* enumerable properties [k, v] in Object.keys order.                       *)
(***************************************************************************)
EXTENDS Integers, Sequences, FiniteSets, TLC

VARIABLES input, df, res, ser, sres

vars == <<input, df, res, ser, sres>>

----------------------------------------------------------------------------
(* Bounds of the model *)

MaxRows == 2
MaxLen == 4

----------------------------------------------------------------------------
(* JavaScript values *)

Num(i) == [t |-> "number", n |-> i, d |-> 1, s |-> ""]
Str(x) == [t |-> "string", n |-> 0, d |-> 1, s |-> x]
Null == [t |-> "null", n |-> 0, d |-> 1, s |-> ""]
Undefined == [t |-> "undefined", n |-> 0, d |-> 1, s |-> ""]

\* Values a cell of a table holds in the model, and values of a Series.
TableVals == {Num(1), Num(2), Str("x")}
SeriesVals == {Num(1), Num(2), Str("1"), Null}

\* Property names used as column names: the empty string and an ordinary
\* name.
Names == {"", "a"}

\* Integer-like property names, in ascending numeric order.
IndexKeys == <<"0", "1", "2">>

IsIndexKey(k) == \E i \in 1..Len(IndexKeys) : IndexKeys[i] = k

IndexOfKey(k) == CHOOSE i \in 1..Len(IndexKeys) : IndexKeys[i] = k

\* All sequences over S of length 0..n.
SeqUpTo(S, n) == UNION {[1..m -> S] : m \in 0..n}

Min2(a, b) == IF a < b THEN a ELSE b
Max2(a, b) == IF a > b THEN a ELSE b

\* Array.prototype.slice(start, end) on integers.
Slice(arr, start, end) ==
  LET len == Len(arr)
      from == IF start < 0 THEN Max2(len + start, 0) ELSE Min2(start, len)
      to == IF end < 0 THEN Max2(len + end, 0) ELSE Min2(end, len)
  IN SubSeq(arr, from + 1, to)

\* arr[i]: undefined outside the array.
At(arr, i) == IF i >= 0 /\ i < Len(arr) THEN arr[i + 1] ELSE Undefined

----------------------------------------------------------------------------
(* JavaScript objects: own properties in Object.keys order *)

ObjKeys(o) == [i \in 1..Len(o) |-> o[i].k]

ObjHas(o, k) == \E i \in 1..Len(o) : o[i].k = k

ObjPos(o, k) == CHOOSE i \in 1..Len(o) : o[i].k = k

ObjGet(o, k) == o[ObjPos(o, k)].v

\* Object.keys order: integer-like keys ascending, then the others in
\* insertion order.
KeyBefore(k1, k2) ==
  /\ IsIndexKey(k1)
  /\ (IsIndexKey(k2) => IndexOfKey(k1) < IndexOfKey(k2))

\* o[k] = v on a plain object.
ObjSet(o, k, v) ==
  IF ObjHas(o, k)
  THEN [o EXCEPT ![ObjPos(o, k)] = [k |-> k, v |-> v]]
  ELSE IF IsIndexKey(k)
  THEN LET before == Cardinality({i \in 1..Len(o) : KeyBefore(o[i].k, k)})
       IN SubSeq(o, 1, before) \o <<[k |-> k, v |-> v]>>
            \o SubSeq(o, before + 1, Len(o))
  ELSE Append(o, [k |-> k, v |-> v])

\* A key sequence is one Object.keys can return.
IsKeyOrder(ks) ==
  /\ \A i, j \in 1..Len(ks) : i < j => ks[i] # ks[j]
  /\ \A i, j \in 1..Len(ks) : i < j =>
       /\ (IsIndexKey(ks[j]) => IsIndexKey(ks[i]))
       /\ (IsIndexKey(ks[i]) /\ IsIndexKey(ks[j])
             => IndexOfKey(ks[i]) < IndexOfKey(ks[j]))

KeyOrders == {ks \in SeqUpTo(Names, Cardinality(Names)) : IsKeyOrder(ks)}

\* keys.includes(k)
Includes(arr, x) == \E i \in 1..Len(arr) : arr[i] = x

----------------------------------------------------------------------------
(* Numbers: rationals n/d, d = 0 for NaN and the infinities *)

RECURSIVE Gcd(_, _)
Gcd(a, b) == IF b = 0 THEN a ELSE Gcd(b, a % b)

Abs(i) == IF i < 0 THEN -i ELSE i

Sign(i) == IF i < 0 THEN -1 ELSE IF i > 0 THEN 1 ELSE 0

Rat(n, d) ==
  IF d = 0 THEN [t |-> "number", n |-> Sign(n), d |-> 0, s |-> ""]
  ELSE LET g == Gcd(Abs(n), Abs(d))
       IN [t |-> "number", n |-> Sign(d) * (n \div g), d |-> Abs(d) \div g,
           s |-> ""]

NaN == Rat(0, 0)
PosInfinity == Rat(1, 0)
NegInfinity == Rat(-1, 0)

\* a + b on numbers (an infinity or NaN absorbs; Infinity - Infinity is NaN).
NumAdd(a, b) ==
  IF a.d = 0 /\ b.d = 0 THEN (IF a.n = b.n THEN a ELSE NaN)
  ELSE IF a.d = 0 THEN a
  ELSE IF b.d = 0 THEN b
  ELSE Rat(a.n * b.d + b.n * a.d, a.d * b.d)

\* a / k for an integer k >= 0 (0 / 0 is NaN, x / 0 an infinity).
NumDivInt(a, k) ==
  IF a.d = 0 THEN (IF k = 0 /\ a.n = 0 THEN NaN ELSE a)
  ELSE Rat(a.n, a.d * k)

\* a < b on numbers (false when either is NaN).
NumLess(a, b) ==
  IF (a.d = 0 /\ a.n = 0) \/ (b.d = 0 /\ b.n = 0) THEN FALSE
  ELSE IF a.d = 0 /\ b.d = 0 THEN a.n < b.n
  ELSE IF a.d = 0 THEN a.n < 0
  ELSE IF b.d = 0 THEN b.n > 0
  ELSE a.n * b.d < b.n * a.d

\* typeof v
TypeOf(v) == IF v.t = "null" THEN "object" ELSE v.t

\* String(v), the property key a value turns into.
ToStr(v) ==
  IF v.t = "string" THEN v.s
  ELSE IF v.t = "null" THEN "null"
  ELSE IF v.t = "undefined" THEN "undefined"
  ELSE IF v.d = 1 /\ v.n >= 0 /\ v.n < Len(IndexKeys) THEN IndexKeys[v.n + 1]
  ELSE IF v.d = 0
  THEN (IF v.n = 0 THEN "NaN" ELSE IF v.n > 0 THEN "Infinity" ELSE "-Infinity")
  ELSE "number"

----------------------------------------------------------------------------
(* Outcome of a call: a returned value or a thrown error, and the receiver  *)
(* as the call leaves it                                                    *)

\* A call: the operation, its arguments (row or count i, column index j,
\* column name k, function fn, flag) and its outcome.
Call(op, i, j, k, fn, flag, out) ==
  [op |-> op, i |-> i, j |-> j, k |-> k, fn |-> fn, flag |-> flag, out |-> out]

\* log: what the call wrote with console.error, or the calls it made to a
\* function it was handed.
Return(ret, self) ==
  [ok |-> TRUE, err |-> "", ret |-> ret, self |-> self, log |-> <<>>]

Throw(err, self) ==
  [ok |-> FALSE, err |-> err, ret |-> Undefined, self |-> self, log |-> <<>>]

WithLog(out, log) == [out EXCEPT !.log = log]

----------------------------------------------------------------------------
(* Series: src/src/core/series.ts, lines 82-293 *)

\* new Series(values): a plain object holding the array it is given; id is
\* the identity of the object, props its own properties besides `values`.
NewSeries(values, id) == [id |-> id, values |-> values, props |-> <<>>]

\* An object created during a call on `self` is not `self`.
FreshId(self) == self.id + 1

\* Series_head with a fault: slice(n) in place of slice(0, n).
Series_head_fromN(self, n) ==
  Return(NewSeries(Slice(self.values, n, Len(self.values)), FreshId(self)), self)

Series_head(self, n) ==
  Return(NewSeries(Slice(self.values, 0, n), FreshId(self)), self)

Series_tail(self, n) ==
  Return(NewSeries(Slice(self.values, Len(self.values) - n, Len(self.values)),
                   FreshId(self)), self)

Series_length(self) == Return(Len(self.values), self)

\* val.length of the texts the model uses.
StrLen(x) == IF x = "" THEN 0 ELSE IF x = "null" THEN 4 ELSE 1

\* Bytes one value is counted for.
BytesOf(v) ==
  IF v.t = "number" THEN 8
  ELSE IF v.t = "string" THEN StrLen(v.s) * 2
  ELSE IF v.t = "null" \/ v.t = "undefined" THEN 0
  ELSE 8

RECURSIVE TotalBytes(_)
TotalBytes(values) ==
  IF values = <<>> THEN 0 ELSE BytesOf(Head(values)) + TotalBytes(Tail(values))

\* `${(totalBytes / 1024).toFixed(2)} KB`: the hundredths of a KB, rounded
\* half up, stand for the text.
ToFixed2KB(totalBytes) == [text |-> "KB", hundredths |-> (totalBytes * 200 + 1024) \div 2048]

Series_estimatedMemoryUsage(self) ==
  Return(ToFixed2KB(TotalBytes(self.values)), self)

Series_info(self) ==
  LET length == Len(self.values)
      type == IF length > 0 THEN TypeOf(self.values[1]) ELSE "undefined"
  IN Return([length |-> length, type |-> type,
             estimatedMemoryUsage |-> Series_estimatedMemoryUsage(self).ret],
            self)

\* Uniques with a fault: values are compared by their text, as keys of an
\* object would be.
RECURSIVE Uniques_byText(_, _)
Uniques_byText(values, seen) ==
  IF values = <<>> THEN seen
  ELSE Uniques_byText(Tail(values),
                      IF \E i \in 1..Len(seen) : ToStr(seen[i]) = ToStr(Head(values))
                      THEN seen
                      ELSE Append(seen, Head(values)))

\* The values in first-occurrence order, each once (Set membership).
RECURSIVE Uniques(_, _)
Uniques(values, seen) ==
  IF values = <<>> THEN seen
  ELSE Uniques(Tail(values),
               IF Includes(seen, Head(values)) THEN seen
               ELSE Append(seen, Head(values)))

Series_unique(self) ==
  Return(NewSeries(Uniques(self.values, <<>>), FreshId(self)), self)

\* The Map of counts: a sequence of [val, count] in insertion order.
MapHas(m, val) == \E i \in 1..Len(m) : m[i].val = val

MapPos(m, val) == CHOOSE i \in 1..Len(m) : m[i].val = val

MapGet(m, val) == IF MapHas(m, val) THEN m[MapPos(m, val)].count ELSE 0

MapSet(m, val, count) ==
  IF MapHas(m, val)
  THEN [m EXCEPT ![MapPos(m, val)] = [val |-> val, count |-> count]]
  ELSE Append(m, [val |-> val, count |-> count])

RECURSIVE CountValues(_, _)
CountValues(values, counts) ==
  IF values = <<>> THEN counts
  ELSE CountValues(Tail(values),
                   MapSet(counts, Head(values), MapGet(counts, Head(values)) + 1))

\* countsArray.sort((a, b) => b[1] - a[1]): a stable sort, count descending.
RECURSIVE InsertByCount(_, _)
InsertByCount(sorted, e) ==
  IF sorted = <<>> THEN <<e>>
  ELSE IF Head(sorted).count < e.count THEN <<e>> \o sorted
  ELSE <<Head(sorted)>> \o InsertByCount(Tail(sorted), e)

RECURSIVE SortByCountDesc(_, _)
SortByCountDesc(entries, sorted) ==
  IF entries = <<>> THEN sorted
  ELSE SortByCountDesc(Tail(entries), InsertByCount(sorted, Head(entries)))

\* result[val] = count for each entry: the value becomes a property key.
RECURSIVE EntriesToObject(_, _)
EntriesToObject(entries, result) ==
  IF entries = <<>> THEN result
  ELSE EntriesToObject(Tail(entries),
                       ObjSet(result, ToStr(Head(entries).val), Head(entries).count))

Series_valueCounts(self, desc) ==
  LET counts == CountValues(self.values, <<>>)
      countsArray == IF desc THEN SortByCountDesc(counts, <<>>) ELSE counts
  IN Return(EntriesToObject(countsArray, <<>>), self)

\* this.values.every(val => typeof val === 'number')
AllNumbers(values) == \A i \in 1..Len(values) : values[i].t = "number"

RECURSIVE Reduce(_, _)
Reduce(values, acc) ==
  IF values = <<>> THEN acc ELSE Reduce(Tail(values), NumAdd(acc, Head(values)))

\* Series_sum with a fault: the elements that are no numbers are skipped.
Series_sum_skipping(self) ==
  Return(Reduce(SelectSeq(self.values, LAMBDA v : v.t = "number"), Num(0)), self)

Series_sum(self) ==
  IF ~AllNumbers(self.values) THEN Return(Null, self)
  ELSE Return(Reduce(self.values, Num(0)), self)

RECURSIVE ScanMax(_, _)
ScanMax(values, maxVal) ==
  IF values = <<>> THEN maxVal
  ELSE ScanMax(Tail(values),
               IF NumLess(maxVal, Head(values)) THEN Head(values) ELSE maxVal)

Series_max(self) ==
  IF ~AllNumbers(self.values) THEN Return(Null, self)
  ELSE Return(ScanMax(self.values, NegInfinity), self)

RECURSIVE ScanMin(_, _)
ScanMin(values, minVal) ==
  IF values = <<>> THEN minVal
  ELSE ScanMin(Tail(values),
               IF NumLess(Head(values), minVal) THEN Head(values) ELSE minVal)

Series_min(self) ==
  IF ~AllNumbers(self.values) THEN Return(Null, self)
  ELSE Return(ScanMin(self.values, PosInfinity), self)

Series_mean(self) ==
  IF ~AllNumbers(self.values) THEN Return(Null, self)
  ELSE LET sum == Series_sum(self).ret
       IN Return(IF sum.t # "null" THEN NumDivInt(sum, Len(self.values)) ELSE Null,
                 self)

\* [...values].sort((a, b) => a - b): a stable ascending sort of a copy.
RECURSIVE InsertAscending(_, _)
InsertAscending(sorted, v) ==
  IF sorted = <<>> THEN <<v>>
  ELSE IF NumLess(v, Head(sorted)) THEN <<v>> \o sorted
  ELSE <<Head(sorted)>> \o InsertAscending(Tail(sorted), v)

RECURSIVE SortAscending(_, _)
SortAscending(values, sorted) ==
  IF values = <<>> THEN sorted
  ELSE SortAscending(Tail(values), InsertAscending(sorted, Head(values)))

\* a + b where an operand may be undefined (undefined + x is NaN).
Plus(a, b) == IF a.t = "number" /\ b.t = "number" THEN NumAdd(a, b) ELSE NaN

\* Series_median with a fault: the values themselves are sorted, not a copy.
Series_median_inPlace(self) ==
  IF ~AllNumbers(self.values) THEN Return(Null, self)
  ELSE LET sorted == SortAscending(self.values, <<>>)
           mid == Len(sorted) \div 2
       IN Return(IF Len(sorted) % 2 = 0
                 THEN NumDivInt(Plus(At(sorted, mid - 1), At(sorted, mid)), 2)
                 ELSE At(sorted, mid),
                 [self EXCEPT !.values = sorted])

\* Series_median with a fault: the middle of the values as they stand.
Series_median_unsorted(self) ==
  IF ~AllNumbers(self.values) THEN Return(Null, self)
  ELSE LET sorted == self.values
           mid == Len(sorted) \div 2
       IN Return(IF Len(sorted) % 2 = 0
                 THEN NumDivInt(Plus(At(sorted, mid - 1), At(sorted, mid)), 2)
                 ELSE At(sorted, mid),
                 self)

Series_median(self) ==
  IF ~AllNumbers(self.values) THEN Return(Null, self)
  ELSE LET sorted == SortAscending(self.values, <<>>)
           mid == Len(sorted) \div 2
       IN Return(IF Len(sorted) % 2 = 0
                 THEN NumDivInt(Plus(At(sorted, mid - 1), At(sorted, mid)), 2)
                 ELSE At(sorted, mid),
                 self)

\* The first entry of the Map, in insertion order, whose count exceeds all
\* the counts before it.
\* ScanMode with a fault: count >= maxCount, so the last entry among those
\* of the highest count wins.
RECURSIVE ScanMode_lastWins(_, _, _)
ScanMode_lastWins(entries, maxCount, mode) ==
  IF entries = <<>> THEN mode
  ELSE IF Head(entries).count >= maxCount
  THEN ScanMode_lastWins(Tail(entries), Head(entries).count, Head(entries).val)
  ELSE ScanMode_lastWins(Tail(entries), maxCount, mode)

RECURSIVE ScanMode(_, _, _)
ScanMode(entries, maxCount, mode) ==
  IF entries = <<>> THEN mode
  ELSE IF Head(entries).count > maxCount
  THEN ScanMode(Tail(entries), Head(entries).count, Head(entries).val)
  ELSE ScanMode(Tail(entries), maxCount, mode)

\* Series_mode with a fault: the mode is tracked while the values are
\* counted, so the first value to reach the highest count wins.
RECURSIVE ScanWhileCounting(_, _, _, _)
ScanWhileCounting(values, counts, maxCount, mode) ==
  IF values = <<>> THEN mode
  ELSE LET count == MapGet(counts, Head(values)) + 1
       IN ScanWhileCounting(Tail(values), MapSet(counts, Head(values), count),
                            IF count > maxCount THEN count ELSE maxCount,
                            IF count > maxCount THEN Head(values) ELSE mode)

Series_mode_firstToReach(self) ==
  IF Len(self.values) = 0 THEN Return(Null, self)
  ELSE Return(ScanWhileCounting(self.values, <<>>, 0, Null), self)

Series_mode(self) ==
  IF Len(self.values) = 0 THEN Return(Null, self)
  ELSE Return(ScanMode(CountValues(self.values, <<>>), 0, Null), self)

Series_describe(self) ==
  Return([max |-> Series_max(self).ret, min |-> Series_min(self).ret,
          sum |-> Series_sum(self).ret, mean |-> Series_mean(self).ret,
          median |-> Series_median(self).ret, mode |-> Series_mode(self).ret],
         self)

----------------------------------------------------------------------------
(* DataFrame: src/unnamed/part_002 *)

E_NONEMPTY == "DataFrame constructor: expected a non-empty array of objects."
E_ELEMENTS == "DataFrame constructor: array elements must be objects."
E_KEYS == "DataFrame constructor: all objects must have the same keys."
E_NOKEY == "DataFrame constructor: object must have at least one key."
E_ARRAYS == "DataFrame constructor: all values in object must be arrays."
E_LENGTHS == "DataFrame constructor: all arrays must have the same length."
E_SHAPE == "DataFrame constructor: expected array of objects or object of arrays."
E_ASSIGN == "Direct assignment to Dataframe value is not allowed."
E_ROW == "Row index <rowIndex> out of range"
E_COLUMN == "Column \"<colName>\" does not exist"
E_LOG_COLUMN == "Column \"<k>\" does not exist in DataFrame."
\* What the tests of Series expect an assignment series[i] = v to throw.
E_SERIES_ASSIGN == "Direct assignment to Series values is not allowed."
E_TYPE == "TypeError: cannot read properties of undefined"

\* No table: what a variable holds before a constructor has returned.
NoTable == [exists |-> FALSE, columns |-> <<>>]

\* The constructor's argument:
\*   an array      [shape |-> "array", items |-> rows], each row an object
\*                 [isObject |-> TRUE, props |-> ...] or no object at all;
\*   an object     [shape |-> "object", props |-> name -> value], each value
\*                 an array [isArray |-> TRUE, items |-> ...] or no array;
\*   anything else [shape |-> "other"].
ArrayData(items) == [shape |-> "array", items |-> items, props |-> <<>>]
ObjectData(props) == [shape |-> "object", items |-> <<>>, props |-> props]
OtherData == [shape |-> "other", items |-> <<>>, props |-> <<>>]

\* KeysDiffer with a fault: the keys are compared in the order listed.
KeysDiffer_ordered(rowKeys, keys) == rowKeys # keys

\* rowKeys.length !== keys.length || !rowKeys.every(k => keys.includes(k))
KeysDiffer(rowKeys, keys) ==
  \/ Len(rowKeys) # Len(keys)
  \/ ~(\A i \in 1..Len(rowKeys) : Includes(keys, rowKeys[i]))

\* The loop over the rows: the first row that fails decides the error.
RECURSIVE CheckRows(_, _)
CheckRows(rows, keys) ==
  IF rows = <<>> THEN ""
  ELSE IF ~Head(rows).isObject THEN E_ELEMENTS
  ELSE IF KeysDiffer(ObjKeys(Head(rows).props), keys) THEN E_KEYS
  ELSE CheckRows(Tail(rows), keys)

\* ColumnOfRows with a fault: each row is read at the position the key has
\* in the first row.
ColumnOfRows_byPosition(rows, key) ==
  [i \in 1..Len(rows) |-> rows[i].props[ObjPos(rows[1].props, key)].v]

\* data.map(row => row[key])
ColumnOfRows(rows, key) == [i \in 1..Len(rows) |-> ObjGet(rows[i].props, key)]

\* for (const key of keys) this.columns[key] = new Series(data.map(...))
RECURSIVE ColumnsFromRows(_, _, _, _)
ColumnsFromRows(rows, keys, i, columns) ==
  IF i > Len(keys) THEN columns
  ELSE ColumnsFromRows(rows, keys, i + 1,
         ObjSet(columns, keys[i], NewSeries(ColumnOfRows(rows, keys[i]), i)))

\* ColumnsFromArrays with a fault: every column is given the first array.
ColumnsFromArrays_firstArray(props, keys, i, columns) ==
  [j \in 1..Len(keys) |-> [k |-> keys[j], v |-> NewSeries(props[1].v.items, j)]]

\* for (const key of keys) this.columns[key] = new Series(data[key])
RECURSIVE ColumnsFromArrays(_, _, _, _)
ColumnsFromArrays(props, keys, i, columns) ==
  IF i > Len(keys) THEN columns
  ELSE ColumnsFromArrays(props, keys, i + 1,
         ObjSet(columns, keys[i], NewSeries(ObjGet(props, keys[i]).items, i)))

\* Lengths with a fault: every array is given the length of the first.
Lengths_ofFirst(props) ==
  [i \in 1..Len(props) |->
     IF props[i].v.isArray THEN Len(props[1].v.items) ELSE -1]

\* keys.map(k => Array.isArray(data[k]) ? data[k].length : -1)
Lengths(props) ==
  [i \in 1..Len(props) |-> IF props[i].v.isArray THEN Len(props[i].v.items) ELSE -1]

\* The table the constructor returns (behind its Proxy).
Table(columns) == [exists |-> TRUE, columns |-> columns]

\* Case 1: array of objects.
FromArrayOfObjects(data) ==
  IF Len(data.items) = 0 \/ ~data.items[1].isObject
  THEN Throw(E_NONEMPTY, NoTable)
  ELSE LET keys == ObjKeys(data.items[1].props)
           error == CheckRows(data.items, keys)
       IN IF error # "" THEN Throw(error, NoTable)
          ELSE Return(Table(ColumnsFromRows(data.items, keys, 1, <<>>)), NoTable)

\* FromObjectOfArrays with a fault: the check for an object without keys is
\* missing.
FromObjectOfArrays_noKeyCheck(data) ==
  LET keys == ObjKeys(data.props)
      lengths == Lengths(data.props)
  IN IF Includes(lengths, -1) THEN Throw(E_ARRAYS, NoTable)
     ELSE IF ~(\A i \in 1..Len(lengths) : lengths[i] = lengths[1])
     THEN Throw(E_LENGTHS, NoTable)
     ELSE Return(Table(ColumnsFromArrays(data.props, keys, 1, <<>>)), NoTable)

\* Case 2: object of arrays.
FromObjectOfArrays(data) ==
  LET keys == ObjKeys(data.props)
      lengths == Lengths(data.props)
  IN IF Len(keys) = 0 THEN Throw(E_NOKEY, NoTable)
     ELSE IF Includes(lengths, -1) THEN Throw(E_ARRAYS, NoTable)
     ELSE IF ~(\A i \in 1..Len(lengths) : lengths[i] = lengths[1])
     THEN Throw(E_LENGTHS, NoTable)
     ELSE Return(Table(ColumnsFromArrays(data.props, keys, 1, <<>>)), NoTable)

DataFrame_new(data) ==
  IF data.shape = "array" THEN FromArrayOfObjects(data)
  ELSE IF data.shape = "object" THEN FromObjectOfArrays(data)
  ELSE Throw(E_SHAPE, NoTable)

\* The Proxy's set trap: every assignment to a property of the table.
Proxy_set(self, prop) == Throw(E_ASSIGN, self)

\* An array as a value of the constructor's object argument.
ArrayValue(items) == [isArray |-> TRUE, items |-> items]

\* new DataFrame(result), thrown errors passing through the caller.
Reconstruct(self, result) ==
  LET out == DataFrame_new(ObjectData(result))
  IN IF out.ok THEN Return(out.ret, self) ELSE Throw(out.err, self)

\* for (const key in this.columns) result[key] = values.slice(0, n)
RECURSIVE HeadOfColumns(_, _, _)
HeadOfColumns(columns, n, result) ==
  IF columns = <<>> THEN result
  ELSE HeadOfColumns(Tail(columns), n,
         ObjSet(result, Head(columns).k,
                ArrayValue(Slice(Head(columns).v.values, 0, n))))

\* DataFrame_head with a fault: the columns of the receiver are cut in place
\* (splice for slice).
DataFrame_head_inPlace(self, n) ==
  LET out == Reconstruct(self, HeadOfColumns(self.columns, n, <<>>))
  IN IF out.ok THEN Return(out.ret, [self EXCEPT !.columns = out.ret.columns])
     ELSE out

DataFrame_head(self, n) ==
  Reconstruct(self, HeadOfColumns(self.columns, n, <<>>))

\* for (const key in this.columns)
\*   result[key] = values.slice(values.length - n, values.length)
RECURSIVE TailOfColumns(_, _, _)
TailOfColumns(columns, n, result) ==
  IF columns = <<>> THEN result
  ELSE TailOfColumns(Tail(columns), n,
         ObjSet(result, Head(columns).k,
                ArrayValue(Slice(Head(columns).v.values,
                                 Len(Head(columns).v.values) - n,
                                 Len(Head(columns).v.values)))))

DataFrame_tail(self, n) ==
  Reconstruct(self, TailOfColumns(self.columns, n, <<>>))

\* firstKey ? this.columns[firstKey].length() : 0
DataFrame_length(self) ==
  LET keys == ObjKeys(self.columns)
  IN IF Len(keys) > 0 /\ keys[1] # ""
     THEN Return(Series_length(ObjGet(self.columns, keys[1])).ret, self)
     ELSE Return(0, self)

DataFrame_numColumns(self) == Return(Len(ObjKeys(self.columns)), self)

DataFrame_columnNames(self) == Return(ObjKeys(self.columns), self)

DataFrame_shape(self) ==
  Return(<<DataFrame_length(self).ret, Len(ObjKeys(self.columns))>>, self)

RECURSIVE TotalBytesOfColumns(_)
TotalBytesOfColumns(columns) ==
  IF columns = <<>> THEN 0
  ELSE TotalBytes(Head(columns).v.values) + TotalBytesOfColumns(Tail(columns))

DataFrame_estimatedMemoryUsage(self) ==
  Return(ToFixed2KB(TotalBytesOfColumns(self.columns)), self)

DataFrame_info(self) ==
  Return([rows |-> DataFrame_length(self).ret,
          columns |-> DataFrame_numColumns(self).ret,
          columnNames |-> DataFrame_columnNames(self).ret,
          estimatedMemoryUsage |-> DataFrame_estimatedMemoryUsage(self).ret],
         self)

\* A column-name argument: omitted (null) or a name.
NoColumn == [given |-> FALSE, name |-> ""]
Column(name) == [given |-> TRUE, name |-> name]

\* if (k): null and the empty string are both falsy.
Truthy(k) == k.given /\ k.name # ""

\* Property names every plain object inherits.
InheritedKeys == {"toString", "constructor", "hasOwnProperty"}

\* k in this.columns
In(k, columns) == ObjHas(columns, k) \/ k \in InheritedKeys

\* result[key] = value for each entry in turn.
RECURSIVE ObjFromEntries(_, _)
ObjFromEntries(entries, result) ==
  IF entries = <<>> THEN result
  ELSE ObjFromEntries(Tail(entries), ObjSet(result, Head(entries).k, Head(entries).v))

\* this.columns[k].<method>(): the Series method a table method delegates to.
SeriesCall(method, series, desc) ==
  CASE method = "sum" -> Series_sum(series)
    [] method = "max" -> Series_max(series)
    [] method = "min" -> Series_min(series)
    [] method = "mean" -> Series_mean(series)
    [] method = "median" -> Series_median(series)
    [] method = "mode" -> Series_mode(series)
    [] method = "unique" -> Series_unique(series)
    [] method = "valueCounts" -> Series_valueCounts(series, desc)

\* ColumnScoped with a fault: the mapping for the whole table leaves out the
\* columns that hold a value that is no number.
ColumnScoped_numericOnly(self, k, method, desc) ==
  IF Truthy(k)
  THEN IF ~In(k.name, self.columns)
       THEN WithLog(Throw(E_TYPE, self), <<E_LOG_COLUMN>>)
       ELSE IF ~ObjHas(self.columns, k.name) THEN Throw(E_TYPE, self)
       ELSE Return(SeriesCall(method, ObjGet(self.columns, k.name), desc).ret, self)
  ELSE LET numeric == SelectSeq(self.columns, LAMBDA c : AllNumbers(c.v.values))
       IN Return(ObjFromEntries(
                   [i \in 1..Len(numeric) |->
                      [k |-> numeric[i].k,
                       v |-> SeriesCall(method, numeric[i].v, desc).ret]],
                   <<>>),
                 self)

\* The shape shared by sum, max, min, mean, median, mode, unique and
\* valueCounts: with a truthy k the column's own result (after a logged
\* complaint when k is no column, the call on the absent column throws),
\* otherwise one entry per column.
ColumnScoped(self, k, method, desc) ==
  IF Truthy(k)
  THEN IF ~In(k.name, self.columns)
       THEN WithLog(Throw(E_TYPE, self), <<E_LOG_COLUMN>>)
       ELSE IF ~ObjHas(self.columns, k.name) THEN Throw(E_TYPE, self)
       ELSE Return(SeriesCall(method, ObjGet(self.columns, k.name), desc).ret, self)
  ELSE Return(ObjFromEntries(
                [i \in 1..Len(self.columns) |->
                   [k |-> self.columns[i].k,
                    v |-> SeriesCall(method, self.columns[i].v, desc).ret]],
                <<>>),
              self)

DataFrame_sum(self, k) == ColumnScoped(self, k, "sum", TRUE)
DataFrame_max(self, k) == ColumnScoped(self, k, "max", TRUE)
DataFrame_min(self, k) == ColumnScoped(self, k, "min", TRUE)
DataFrame_mean(self, k) == ColumnScoped(self, k, "mean", TRUE)
DataFrame_median(self, k) == ColumnScoped(self, k, "median", TRUE)
DataFrame_mode(self, k) == ColumnScoped(self, k, "mode", TRUE)
DataFrame_unique(self, k) == ColumnScoped(self, k, "unique", TRUE)

DataFrame_valueCounts(self, k, desc) == ColumnScoped(self, k, "valueCounts", desc)

\* DataFrame_describe with a fault: the description of the column is
\* returned as it is, not under the column's name.
DataFrame_describe_unwrapped(self, k) ==
  IF Truthy(k)
  THEN IF ~In(k.name, self.columns)
       THEN WithLog(Throw(E_TYPE, self), <<E_LOG_COLUMN>>)
       ELSE IF ~ObjHas(self.columns, k.name) THEN Throw(E_TYPE, self)
       ELSE Return(Series_describe(ObjGet(self.columns, k.name)).ret, self)
  ELSE Return([max |-> DataFrame_max(self, NoColumn).ret,
               min |-> DataFrame_min(self, NoColumn).ret,
               sum |-> DataFrame_sum(self, NoColumn).ret,
               mean |-> DataFrame_mean(self, NoColumn).ret,
               median |-> DataFrame_median(self, NoColumn).ret,
               mode |-> DataFrame_mode(self, NoColumn).ret],
              self)

DataFrame_describe(self, k) ==
  IF Truthy(k)
  THEN IF ~In(k.name, self.columns)
       THEN WithLog(Throw(E_TYPE, self), <<E_LOG_COLUMN>>)
       ELSE IF ~ObjHas(self.columns, k.name) THEN Throw(E_TYPE, self)
       ELSE Return(<<[k |-> k.name,
                      v |-> Series_describe(ObjGet(self.columns, k.name)).ret]>>,
                   self)
  ELSE Return([max |-> DataFrame_max(self, NoColumn).ret,
               min |-> DataFrame_min(self, NoColumn).ret,
               sum |-> DataFrame_sum(self, NoColumn).ret,
               mean |-> DataFrame_mean(self, NoColumn).ret,
               median |-> DataFrame_median(self, NoColumn).ret,
               mode |-> DataFrame_mode(self, NoColumn).ret],
              self)

\* A column-index argument: omitted (null) or an index.
NoIndex == [given |-> FALSE, index |-> 0]
Index(i) == [given |-> TRUE, index |-> i]

DataFrame_iloc(self, rowIndex, colIndex) ==
  IF ~colIndex.given
  THEN Return(ObjFromEntries(
                [i \in 1..Len(self.columns) |->
                   [k |-> self.columns[i].k,
                    v |-> At(self.columns[i].v.values, rowIndex)]],
                <<>>),
              self)
  ELSE LET keys == ObjKeys(self.columns)
       IN IF colIndex.index >= 0 /\ colIndex.index < Len(keys)
          THEN Return(At(self.columns[colIndex.index + 1].v.values, rowIndex), self)
          ELSE IF ObjHas(self.columns, "undefined")
          THEN Return(At(ObjGet(self.columns, "undefined").values, rowIndex), self)
          ELSE Throw(E_TYPE, self)

DataFrame_loc(self, rowIndex, colName) ==
  LET numRows == DataFrame_length(self).ret
  IN IF rowIndex < 0 \/ rowIndex >= numRows THEN Throw(E_ROW, self)
     ELSE IF ~Includes(DataFrame_columnNames(self).ret, colName)
     THEN Throw(E_COLUMN, self)
     ELSE Return(At(ObjGet(self.columns, colName).values, rowIndex), self)

\* The functions handed to apply: each reads the Series and label it is given.
Fns == {"sum", "label"}

CallFn(fn, series, label) ==
  IF fn = "sum" THEN Series_sum(series).ret ELSE label

\* The Series built of row i: its values in column order.
RowSeries(self, i) ==
  NewSeries([c \in 1..Len(self.columns) |-> At(self.columns[c].v.values, i)],
            Len(self.columns) + 1 + i)

DataFrame_apply(self, fn, axis) ==
  IF axis = 0
  THEN LET keys == ObjKeys(self.columns)
       IN WithLog(
            Return(ObjFromEntries(
                     [i \in 1..Len(keys) |->
                        [k |-> keys[i],
                         v |-> CallFn(fn, ObjGet(self.columns, keys[i]), keys[i])]],
                     <<>>),
                   self),
            [i \in 1..Len(keys) |->
               [series |-> ObjGet(self.columns, keys[i]), label |-> keys[i]]])
  ELSE LET numRows == DataFrame_length(self).ret
       IN WithLog(
            Return([i \in 1..numRows |-> CallFn(fn, RowSeries(self, i - 1), i - 1)],
                   self),
            [i \in 1..numRows |-> [series |-> RowSeries(self, i - 1), label |-> i - 1]])

----------------------------------------------------------------------------
(* Property access from outside the classes *)

\* series[i]: the Series constructor (series.ts 90-92) returns the plain
\* object, whose own properties are `values` and what was assigned to it.
Series_get(self, i) ==
  IF ObjHas(self.props, IndexKeys[i + 1])
  THEN Return(ObjGet(self.props, IndexKeys[i + 1]), self)
  ELSE Return(Undefined, self)

\* series[i] = value: an ordinary property write on that object.
Series_set(self, i, value) ==
  Return(value, [self EXCEPT !.props = ObjSet(self.props, IndexKeys[i + 1], value)])

\* df.columns[name] = series: `columns` is the plain object of line 28, which
\* the Proxy hands out as it is.
Columns_set(self, name, series) ==
  Return(series, [self EXCEPT !.columns = ObjSet(self.columns, name, series)])

\* df.columns[name].values[i] = value: `values` is the array the Series holds.
Values_set(self, name, i, value) ==
  LET series == ObjGet(self.columns, name)
  IN Return(value,
            [self EXCEPT !.columns =
               ObjSet(self.columns, name,
                      [series EXCEPT !.values = [series.values EXCEPT ![i + 1] = value]])])

----------------------------------------------------------------------------
(* The constructor's arguments and the arguments of the calls *)

\* n = 5 when head or tail is called without an argument.
DefaultN == 5

\* An array element that is no object, an object value that is no array.
NotAnObject == [isObject |-> FALSE, props |-> <<>>]
NotAnArray == [isArray |-> FALSE, items |-> <<>>]

RowObjects ==
  UNION {{[isObject |-> TRUE,
           props |-> [i \in 1..Len(ks) |-> [k |-> ks[i], v |-> f[i]]]] :
            f \in [1..Len(ks) -> TableVals]} : ks \in KeyOrders}

ArrayInputs ==
  {ArrayData(rows) : rows \in SeqUpTo(RowObjects \cup {NotAnObject}, MaxRows)}

ColumnValues ==
  {ArrayValue(items) : items \in SeqUpTo(TableVals, MaxRows)} \cup {NotAnArray}

ObjectInputs ==
  UNION {{ObjectData([i \in 1..Len(ks) |-> [k |-> ks[i], v |-> f[i]]]) :
            f \in [1..Len(ks) -> ColumnValues]} : ks \in KeyOrders}

Inputs == ArrayInputs \cup ObjectInputs \cup {OtherData}

NArgs == (-1..(MaxRows + 1)) \cup {DefaultN}
RowArgs == -1..MaxRows
ColArgs == {NoIndex} \cup {Index(j) : j \in -1..Cardinality(Names)}
ArgNames == Names \cup {"toString"}
KArgs == {NoColumn} \cup {Column(name) : name \in ArgNames}

----------------------------------------------------------------------------
(* State: the table a program holds (df) with the argument its constructor  *)
(* was given (input) and the outcome of the last call on it (res); a Series *)
(* a program holds (ser) and the outcome of the last call on it (sres)      *)

NoCall == Call("none", 0, NoIndex, NoColumn, "", FALSE, Return(Undefined, NoTable))

NoSeries == NewSeries(<<>>, 0)

Init ==
  /\ input \in Inputs
  /\ df = NoTable
  /\ res = NoCall
  /\ ser = NoSeries
  /\ sres = NoCall

\* df = new DataFrame(input)
Construct ==
  /\ ~df.exists /\ res.op = "none"
  /\ LET out == DataFrame_new(input)
     IN /\ res' = Call("new", 0, NoIndex, NoColumn, "", FALSE, out)
        /\ df' = IF out.ok THEN out.ret ELSE df
  /\ UNCHANGED <<input, ser, sres>>

\* The caller has taken the outcome of the last call; the next call starts.
Taken ==
  /\ res.op # "none"
  /\ res' = NoCall
  /\ UNCHANGED <<input, df, ser, sres>>

\* A call on df that returns no table to go on with.
Invoke(op, i, j, k, fn, flag, out) ==
  /\ df.exists /\ res.op = "none"
  /\ res' = Call(op, i, j, k, fn, flag, out)
  /\ df' = out.self
  /\ UNCHANGED <<input, ser, sres>>

\* df = df.head(n): the program goes on with the table returned, whose
\* constructor was given the sliced columns.
Head_ ==
  \E n \in NArgs :
    /\ df.exists /\ res.op = "none"
    /\ LET out == DataFrame_head(df, n)
       IN /\ res' = Call("head", n, NoIndex, NoColumn, "", FALSE, out)
          /\ df' = IF out.ok THEN out.ret ELSE out.self
          /\ input' = IF out.ok THEN ObjectData(HeadOfColumns(df.columns, n, <<>>))
                      ELSE input
    /\ UNCHANGED <<ser, sres>>

\* df = df.tail(n)
Tail_ ==
  \E n \in NArgs :
    /\ df.exists /\ res.op = "none"
    /\ LET out == DataFrame_tail(df, n)
       IN /\ res' = Call("tail", n, NoIndex, NoColumn, "", FALSE, out)
          /\ df' = IF out.ok THEN out.ret ELSE out.self
          /\ input' = IF out.ok THEN ObjectData(TailOfColumns(df.columns, n, <<>>))
                      ELSE input
    /\ UNCHANGED <<ser, sres>>

Length ==
  Invoke("length", 0, NoIndex, NoColumn, "", FALSE, DataFrame_length(df))

NumColumns ==
  Invoke("numColumns", 0, NoIndex, NoColumn, "", FALSE, DataFrame_numColumns(df))

ColumnNames ==
  Invoke("columnNames", 0, NoIndex, NoColumn, "", FALSE, DataFrame_columnNames(df))

Shape ==
  Invoke("shape", 0, NoIndex, NoColumn, "", FALSE, DataFrame_shape(df))

Info ==
  Invoke("info", 0, NoIndex, NoColumn, "", FALSE, DataFrame_info(df))

Iloc ==
  \E i \in RowArgs, j \in ColArgs :
    Invoke("iloc", i, j, NoColumn, "", FALSE, DataFrame_iloc(df, i, j))

Loc ==
  \E i \in RowArgs, name \in ArgNames :
    Invoke("loc", i, NoIndex, Column(name), "", FALSE, DataFrame_loc(df, i, name))

\* df[prop] = value, for a column name or any other property: the set trap.
AssignProperty ==
  \E prop \in Names \cup {"columns"} :
    Invoke("set", 0, NoIndex, Column(prop), "", FALSE, Proxy_set(df, prop))

Sum ==
  \E k \in KArgs : Invoke("sum", 0, NoIndex, k, "", FALSE, DataFrame_sum(df, k))

Max ==
  \E k \in KArgs : Invoke("max", 0, NoIndex, k, "", FALSE, DataFrame_max(df, k))

Min ==
  \E k \in KArgs : Invoke("min", 0, NoIndex, k, "", FALSE, DataFrame_min(df, k))

Mean ==
  \E k \in KArgs : Invoke("mean", 0, NoIndex, k, "", FALSE, DataFrame_mean(df, k))

Median ==
  \E k \in KArgs :
    Invoke("median", 0, NoIndex, k, "", FALSE, DataFrame_median(df, k))

Mode ==
  \E k \in KArgs : Invoke("mode", 0, NoIndex, k, "", FALSE, DataFrame_mode(df, k))

Describe ==
  \E k \in KArgs :
    Invoke("describe", 0, NoIndex, k, "", FALSE, DataFrame_describe(df, k))

Unique ==
  \E k \in KArgs :
    Invoke("unique", 0, NoIndex, k, "", FALSE, DataFrame_unique(df, k))

ValueCounts ==
  \E k \in KArgs, desc \in BOOLEAN :
    Invoke("valueCounts", 0, NoIndex, k, "", desc, DataFrame_valueCounts(df, k, desc))

Apply ==
  \E fn \in Fns, axis \in {0, 1} :
    Invoke("apply", axis, NoIndex, NoColumn, fn, FALSE, DataFrame_apply(df, fn, axis))

Next ==
  \/ Construct
  \/ Taken
  \/ Head_
  \/ Tail_
  \/ Length
  \/ NumColumns
  \/ ColumnNames
  \/ Shape
  \/ Info
  \/ Iloc
  \/ Loc
  \/ AssignProperty
  \/ Sum
  \/ Max
  \/ Min
  \/ Mean
  \/ Median
  \/ Mode
  \/ Describe
  \/ Unique
  \/ ValueCounts
  \/ Apply

Spec == Init /\ [][Next]_vars

----------------------------------------------------------------------------
(* Assignments that do not go through the Proxy: the first write to a table *)
(* as its constructor left it                                               *)

AsConstructed == df.exists /\ df = DataFrame_new(input).ret

AssignColumn ==
  /\ res.op = "none"
  /\ AsConstructed
  /\ \E name \in Names, items \in SeqUpTo(TableVals, 1) :
    /\ ObjHas(df.columns, name)
    /\ Invoke("setColumn", 0, NoIndex, Column(name), "", FALSE,
              Columns_set(df, name, NewSeries(items, 0)))

AssignCell ==
  /\ res.op = "none"
  /\ AsConstructed
  /\ \E name \in Names, i \in 0..(MaxRows - 1), value \in TableVals :
    /\ ObjHas(df.columns, name)
    /\ i < Len(ObjGet(df.columns, name).values)
    /\ Invoke("setCell", i, NoIndex, Column(name), "", FALSE,
              Values_set(df, name, i, value))

NextAssign ==
  \/ Construct
  \/ Taken
  \/ Loc
  \/ AssignProperty
  \/ AssignColumn
  \/ AssignCell

SpecAssign == Init /\ [][NextAssign]_vars

----------------------------------------------------------------------------
(* A program holding a Series *)

SeriesInputs == {NewSeries(values, 0) : values \in SeqUpTo(SeriesVals, MaxLen)}

SNArgs == (-1..(MaxLen + 1)) \cup {DefaultN}

InitSeries ==
  /\ ser \in SeriesInputs
  /\ sres = NoCall
  /\ input = OtherData
  /\ df = NoTable
  /\ res = NoCall

SeriesTaken ==
  /\ sres.op # "none"
  /\ sres' = NoCall
  /\ UNCHANGED <<input, df, res, ser>>

SeriesInvoke(op, i, flag, out) ==
  /\ sres.op = "none"
  /\ sres' = Call(op, i, NoIndex, NoColumn, "", flag, out)
  /\ ser' = out.self
  /\ UNCHANGED <<input, df, res>>

SeriesHead == \E n \in SNArgs : SeriesInvoke("head", n, FALSE, Series_head(ser, n))
SeriesTail == \E n \in SNArgs : SeriesInvoke("tail", n, FALSE, Series_tail(ser, n))
SeriesLength == SeriesInvoke("length", 0, FALSE, Series_length(ser))
SeriesInfo == SeriesInvoke("info", 0, FALSE, Series_info(ser))
SeriesDescribe == SeriesInvoke("describe", 0, FALSE, Series_describe(ser))
SeriesUnique == SeriesInvoke("unique", 0, FALSE, Series_unique(ser))
SeriesValueCounts ==
  \E desc \in BOOLEAN :
    SeriesInvoke("valueCounts", 0, desc, Series_valueCounts(ser, desc))
SeriesSum == SeriesInvoke("sum", 0, FALSE, Series_sum(ser))
SeriesMax == SeriesInvoke("max", 0, FALSE, Series_max(ser))
SeriesMin == SeriesInvoke("min", 0, FALSE, Series_min(ser))
SeriesMean == SeriesInvoke("mean", 0, FALSE, Series_mean(ser))
SeriesMedian == SeriesInvoke("median", 0, FALSE, Series_median(ser))
SeriesMode == SeriesInvoke("mode", 0, FALSE, Series_mode(ser))

\* series[i]
SeriesGet ==
  \E i \in 0..(Len(IndexKeys) - 1) : SeriesInvoke("get", i, FALSE, Series_get(ser, i))

\* series[i] = value, the first write to the Series
SeriesSet ==
  \E i \in 0..(Len(IndexKeys) - 1), value \in SeriesVals :
    /\ Len(ser.props) = 0
    /\ SeriesInvoke("set", i, FALSE, Series_set(ser, i, value))

NextSeries ==
  \/ SeriesTaken
  \/ SeriesHead
  \/ SeriesTail
  \/ SeriesLength
  \/ SeriesInfo
  \/ SeriesDescribe
  \/ SeriesUnique
  \/ SeriesValueCounts
  \/ SeriesSum
  \/ SeriesMax
  \/ SeriesMin
  \/ SeriesMean
  \/ SeriesMedian
  \/ SeriesMode
  \/ SeriesGet
  \/ SeriesSet

SpecSeries == InitSeries /\ [][NextSeries]_vars

----------------------------------------------------------------------------
(* Properties *)

\* Two objects hold the same keys with the same values, in whatever order.
SameMapping(o1, o2) ==
  /\ Len(o1) = Len(o2)
  /\ \A i \in 1..Len(o1) : ObjHas(o2, o1[i].k) /\ ObjGet(o2, o1[i].k) = o1[i].v

KeySet(o) == {o[i].k : i \in 1..Len(o)}

\* df is the table the constructor built of the array of rows `input`.
BuiltFromRows == df.exists /\ input.shape = "array"

\* df is the table the constructor built of the object of arrays `input`.
BuiltFromColumns == df.exists /\ input.shape = "object"

\* C1: for a table built of row records, iloc(i) with 0 <= i < number of
\* rows given returns a mapping with the keys and the values of the i-th
\* record given.
C1_IlocReconstructsRow ==
  (BuiltFromRows /\ res.op = "iloc" /\ ~res.j.given
     /\ res.i >= 0 /\ res.i < Len(input.items))
  => /\ res.out.ok
     /\ SameMapping(res.out.ret, input.items[res.i + 1].props)

C1_Witness ==
  /\ BuiltFromRows /\ res.op = "iloc" /\ ~res.j.given /\ res.i = 1
  /\ Len(input.items) = 2
  /\ ObjKeys(input.items[1].props) = <<"a", "">>
  /\ ObjKeys(input.items[2].props) = <<"", "a">>
  /\ ObjGet(input.items[2].props, "a") # ObjGet(input.items[2].props, "")
  /\ input.items[1].props # input.items[2].props
  /\ res.out.ok

\* C2: for a table built of an object of equally long arrays, every column
\* holds the values of the array given under its name, in the same order,
\* and columnNames() lists the names in the order of the object given.
C2_ColumnsRoundTrip ==
  BuiltFromColumns
  => /\ \A i \in 1..Len(input.props) :
          /\ ObjHas(df.columns, input.props[i].k)
          /\ ObjGet(df.columns, input.props[i].k).values = input.props[i].v.items
     /\ Len(df.columns) = Len(input.props)
     /\ (res.op = "columnNames"
           => res.out.ok /\ res.out.ret = ObjKeys(input.props))

C2_Witness ==
  /\ BuiltFromColumns /\ res.op = "columnNames"
  /\ ObjKeys(input.props) = <<"a", "">>
  /\ Len(input.props[1].v.items) = 2
  /\ input.props[1].v.items[1] # input.props[1].v.items[2]
  /\ input.props[1].v.items # input.props[2].v.items

\* The columns of a table all have the same length.
EqualLengths(table) ==
  \A i, j \in 1..Len(table.columns) :
    Len(table.columns[i].v.values) = Len(table.columns[j].v.values)

\* Two states of a table have the same column names and column lengths.
SameStructure(t1, t2) ==
  /\ ObjKeys(t1.columns) = ObjKeys(t2.columns)
  /\ \A i \in 1..Len(t1.columns) :
       Len(t1.columns[i].v.values) = Len(t2.columns[i].v.values)

\* C3: every table reached by a construction and head/tail calls has columns
\* of one length, and a call of a public operation leaves the column names
\* and the column lengths of its receiver as they were.
C3_EqualLengthsAndFrame ==
  /\ [](df.exists => EqualLengths(df))
  /\ [][(res'.op # "none" /\ res'.op # "new")
          => SameStructure(res'.out.self, df)]_vars

C3_Witness ==
  /\ df.exists /\ res.op = "tail" /\ res.i = 1 /\ res.out.ok
  /\ Len(df.columns) = 2
  /\ Len(df.columns[1].v.values) = 1
  /\ Len(res.out.self.columns[1].v.values) = 2

\* All elements of the array given are objects.
AllRecords == \A i \in 1..Len(input.items) : input.items[i].isObject

\* C4: a non-empty array of records is refused with E_KEYS when the key set
\* of some record differs from the first record's, and accepted when all
\* the key sets are the same, in whatever order the keys are listed; a
\* refusal leaves no table.
C4_SameKeys ==
  (res.op = "new" /\ input.shape = "array" /\ Len(input.items) > 0 /\ AllRecords)
  => IF \E i \in 1..Len(input.items) :
          KeySet(input.items[i].props) # KeySet(input.items[1].props)
     THEN ~res.out.ok /\ res.out.err = E_KEYS /\ ~df.exists
     ELSE res.out.ok /\ df.exists /\ df = res.out.ret

C4_Witness ==
  /\ res.op = "new" /\ input.shape = "array" /\ Len(input.items) = 2 /\ AllRecords
  /\ ObjKeys(input.items[1].props) = <<"a", "">>
  /\ ObjKeys(input.items[2].props) = <<"", "a">>
  /\ res.out.ok /\ df.exists

\* All values of the object given are arrays.
AllArrays == \A i \in 1..Len(input.props) : input.props[i].v.isArray

\* C5: an object with keys is refused with E_ARRAYS when a value is no
\* array, with E_LENGTHS when all are arrays and two differ in length, and
\* accepted when all are arrays of one length, length 0 included; a refusal
\* leaves no table.
C5_SameLengths ==
  (res.op = "new" /\ input.shape = "object" /\ Len(input.props) > 0)
  => IF ~AllArrays
     THEN ~res.out.ok /\ res.out.err = E_ARRAYS /\ ~df.exists
     ELSE IF \E i, j \in 1..Len(input.props) :
               Len(input.props[i].v.items) # Len(input.props[j].v.items)
     THEN ~res.out.ok /\ res.out.err = E_LENGTHS /\ ~df.exists
     ELSE res.out.ok /\ df.exists /\ df = res.out.ret

C5_Witness ==
  /\ res.op = "new" /\ input.shape = "object" /\ Len(input.props) = 2
  /\ AllArrays
  /\ Len(input.props[1].v.items) = 2 /\ Len(input.props[2].v.items) = 1
  /\ ~res.out.ok /\ res.out.err = E_LENGTHS /\ ~df.exists

\* C6: the empty array is refused with E_NONEMPTY and the object without
\* keys with E_NOKEY, and neither leaves a table.
C6_EmptyInput ==
  /\ (res.op = "new" /\ input = ArrayData(<<>>))
       => ~res.out.ok /\ res.out.err = E_NONEMPTY
            /\ ~df.exists /\ res.out.ret = Undefined
  /\ (res.op = "new" /\ input = ObjectData(<<>>))
       => ~res.out.ok /\ res.out.err = E_NOKEY
            /\ ~df.exists /\ res.out.ret = Undefined

C6_Witness ==
  /\ res.op = "new" /\ input = ObjectData(<<>>)
  /\ ~res.out.ok /\ ~df.exists

\* The number of rows of a table: the length of any of its columns, 0 when
\* it has none.
RowCount(table) ==
  IF Len(table.columns) = 0 THEN 0 ELSE Len(table.columns[1].v.values)

\* C7: loc(rowIndex, colName) returns the value at that row of that column
\* when 0 <= rowIndex < number of rows and colName is a column; it throws
\* E_ROW when rowIndex is outside that range, E_COLUMN when the row is in
\* range and the column is absent, and returns nothing in either case.
C7_LocContract ==
  (df.exists /\ res.op = "loc")
  => LET rowOk == res.i >= 0 /\ res.i < RowCount(df)
         colOk == ObjHas(df.columns, res.k.name)
     IN /\ (rowOk /\ colOk)
             => /\ res.out.ok
                /\ res.out.ret = ObjGet(df.columns, res.k.name).values[res.i + 1]
        /\ ~rowOk => ~res.out.ok /\ res.out.err = E_ROW
        /\ (rowOk /\ ~colOk) => ~res.out.ok /\ res.out.err = E_COLUMN

\* C8: every assignment to a column or to a cell of a table is refused with
\* E_ASSIGN and leaves the table as it was.
C8_AssignmentRefused ==
  [][(res'.op \in {"set", "setColumn", "setCell"})
       => (~res'.out.ok /\ res'.out.err = E_ASSIGN /\ df' = df)]_vars

SeriesMethods ==
  {"length", "head", "tail", "info", "describe", "unique", "valueCounts",
   "sum", "max", "min", "mean", "median", "mode"}

C10_IndexAccess ==
  /\ (sres.op = "get" /\ sres.i < Len(ser.values))
       => sres.out.ok /\ sres.out.ret = ser.values[sres.i + 1]
  /\ (sres.op = "set")
       => ~sres.out.ok /\ sres.out.err = E_SERIES_ASSIGN


----------------------------------------------------------------------------
(* Statistics of a Series *)

\* The sum of the numerators of whole numbers.
RECURSIVE IntSum(_)
IntSum(values) ==
  IF values = <<>> THEN 0 ELSE Head(values).n + IntSum(Tail(values))

C12_MeanContract ==
  (sres.op = "mean")
  => /\ sres.out.ok
     /\ (ser.values # <<>> /\ AllNumbers(ser.values))
          => sres.out.ret = Rat(IntSum(ser.values), Len(ser.values))
     /\ (ser.values = <<>> \/ ~AllNumbers(ser.values)) => sres.out.ret = Null

\* C13: max() and min() return the largest and the smallest element of a
\* non-empty Series of numbers, null when some element is no number, and
\* null or undefined, never a number, for the empty Series.
C13_ExtremumContract ==
  (sres.op \in {"max", "min"})
  => /\ sres.out.ok
     /\ (ser.values # <<>> /\ AllNumbers(ser.values))
          => /\ Includes(ser.values, sres.out.ret)
             /\ \A i \in 1..Len(ser.values) :
                  IF sres.op = "max"
                  THEN ~NumLess(sres.out.ret, ser.values[i])
                  ELSE ~NumLess(ser.values[i], sres.out.ret)
     /\ ~AllNumbers(ser.values) => sres.out.ret = Null
     /\ ser.values = <<>> => sres.out.ret.t \in {"null", "undefined"}


\* How often v occurs in values.
Occurrences(values, v) == Cardinality({i \in 1..Len(values) : values[i] = v})

\* s holds the numbers of values, each as often, in ascending order.
IsAscendingOrderOf(s, values) ==
  /\ \A i \in 1..Len(values) :
       Occurrences(s, values[i]) = Occurrences(values, values[i])
  /\ \A i, j \in 1..Len(s) : i < j => ~NumLess(s[j], s[i])

Ascending(values) ==
  CHOOSE s \in [1..Len(values) -> {values[i] : i \in 1..Len(values)}] :
    IsAscendingOrderOf(s, values)

\* C14: median() of a non-empty Series of numbers is the middle element of
\* the numbers in ascending order when their number is odd and the average
\* of the two middle elements when it is even, whatever the order of the
\* values; it is null when some element is no number.
C14_MedianContract ==
  (sres.op = "median")
  => /\ sres.out.ok
     /\ (ser.values # <<>> /\ AllNumbers(ser.values))
          => LET s == Ascending(ser.values)
                 n == Len(s)
             IN sres.out.ret =
                  IF n % 2 = 1 THEN s[(n + 1) \div 2]
                  ELSE Rat(s[n \div 2].n + s[n \div 2 + 1].n, 2)
     /\ ~AllNumbers(ser.values) => sres.out.ret = Null

C14_Witness ==
  /\ sres.op = "median"
  /\ ser.values = <<Num(2), Num(1), Num(2), Num(1)>>
  /\ sres.out.ret = Rat(3, 2)

\* The highest number of occurrences of a value.
MaxCount(values) ==
  CHOOSE m \in 0..Len(values) :
    /\ \A i \in 1..Len(values) : Occurrences(values, values[i]) <= m
    /\ (values # <<>> => \E i \in 1..Len(values) : Occurrences(values, values[i]) = m)

\* The position of the first occurrence of v, and of its k-th occurrence.
FirstPos(values, v) == CHOOSE i \in 1..Len(values) :
  values[i] = v /\ \A j \in 1..(i - 1) : values[j] # v

ReachPos(values, v, k) == CHOOSE i \in 1..Len(values) :
  values[i] = v /\ Occurrences(SubSeq(values, 1, i), v) = k

\* C15 as stated: mode() returns a value of the highest count, and among
\* several the one that is first to reach that count along the sequence.
C15_ModeFirstToReach ==
  (sres.op = "mode" /\ ser.values # <<>>)
  => LET m == MaxCount(ser.values)
     IN /\ Occurrences(ser.values, sres.out.ret) = m
        /\ \A i \in 1..Len(ser.values) :
             Occurrences(ser.values, ser.values[i]) = m
             => ReachPos(ser.values, sres.out.ret, m) <= ReachPos(ser.values, ser.values[i], m)

\* C15 as amended: mode() returns a value of the highest count, and every
\* value seen before the first occurrence of the value returned has a lower
\* count (among several of the highest count, the one seen first).
C15_ModeFirstSeen ==
  (sres.op = "mode" /\ ser.values # <<>>)
  => LET m == MaxCount(ser.values)
     IN /\ Occurrences(ser.values, sres.out.ret) = m
        /\ \A j \in 1..(FirstPos(ser.values, sres.out.ret) - 1) :
             Occurrences(ser.values, ser.values[j]) < m

C15_Witness ==
  /\ sres.op = "mode"
  /\ ser.values = <<Num(1), Num(2), Num(2), Num(1)>>
  /\ sres.out.ret = Num(1)

\* C16: mode() of the empty Series is null; otherwise it is the value of
\* the highest count whose first occurrence is the earliest, the first
\* element when all values occur equally often.
C16_ModeTieBreak ==
  (sres.op = "mode")
  => /\ sres.out.ok
     /\ ser.values = <<>> => sres.out.ret = Null
     /\ ser.values # <<>>
          => /\ Occurrences(ser.values, sres.out.ret) = MaxCount(ser.values)
             /\ \A i \in 1..Len(ser.values) :
                  Occurrences(ser.values, ser.values[i]) = MaxCount(ser.values)
                  => FirstPos(ser.values, sres.out.ret) <= i
     /\ (ser.values # <<>> /\ \A i, j \in 1..Len(ser.values) :
            Occurrences(ser.values, ser.values[i]) = Occurrences(ser.values, ser.values[j]))
          => sres.out.ret = ser.values[1]

C16_Witness ==
  /\ sres.op = "mode"
  /\ ser.values = <<Num(2), Str("1"), Num(1)>>
  /\ sres.out.ret = Num(2)


----------------------------------------------------------------------------
(* Distinct values and their counts *)

\* C17: unique() returns a new Series holding every distinct value of the
\* receiver once, in the order of first occurrence, values of different
\* types kept apart; unique() of the result holds the same sequence.
C17_UniqueContract ==
  (sres.op = "unique")
  => LET u == sres.out.ret.values
     IN /\ sres.out.ok
        /\ sres.out.ret.id # ser.id
        /\ \A i \in 1..Len(ser.values) : Occurrences(u, ser.values[i]) = 1
        /\ \A i \in 1..Len(u) : Occurrences(ser.values, u[i]) >= 1
        /\ \A i, j \in 1..Len(u) :
             i < j => FirstPos(ser.values, u[i]) < FirstPos(ser.values, u[j])
        /\ Series_unique(sres.out.ret).ret.values = u

C17_Witness ==
  /\ sres.op = "unique"
  /\ ser.values = <<Str("1"), Num(1), Str("1"), Num(1)>>
  /\ sres.out.ret.values = <<Str("1"), Num(1)>>

\* The distinct values from position i on, in the order of first occurrence.
RECURSIVE FirstSeen(_, _)
FirstSeen(values, i) ==
  IF i > Len(values) THEN <<>>
  ELSE (IF FirstPos(values, values[i]) = i THEN <<values[i]>> ELSE <<>>)
         \o FirstSeen(values, i + 1)

\* The mapping has one entry per distinct value, under the value's key,
\* holding the number of its occurrences.
CountsOf(mapping, values) ==
  /\ Len(mapping) = Len(FirstSeen(values, 1))
  /\ \A i \in 1..Len(values) :
       /\ ObjHas(mapping, ToStr(values[i]))
       /\ ObjGet(mapping, ToStr(values[i])) = Occurrences(values, values[i])

\* C18: valueCounts(true) maps each distinct value to the number of its
\* occurrences, the entries ordered by count descending and entries of equal
\* count in the order in which their values were first seen.
C18_ValueCountsDescending ==
  (sres.op = "valueCounts" /\ sres.flag)
  => LET counts == sres.out.ret
     IN /\ sres.out.ok
        /\ CountsOf(counts, ser.values)
        /\ \A i, j \in 1..Len(counts) : i < j => counts[i].v >= counts[j].v
        /\ \A i, j \in 1..Len(ser.values) :
             (/\ Occurrences(ser.values, ser.values[i])
                   = Occurrences(ser.values, ser.values[j])
              /\ FirstPos(ser.values, ser.values[i])
                   < FirstPos(ser.values, ser.values[j]))
             => ObjPos(counts, ToStr(ser.values[i]))
                  < ObjPos(counts, ToStr(ser.values[j]))

\* C19: valueCounts(false) holds the entries of valueCounts(true), in the
\* order of first occurrence of their values.
C19_ValueCountsFirstSeen ==
  (sres.op = "valueCounts" /\ ~sres.flag)
  => LET counts == sres.out.ret
         seen == FirstSeen(ser.values, 1)
     IN /\ sres.out.ok
        /\ SameMapping(counts, Series_valueCounts(ser, TRUE).ret)
        /\ Len(counts) = Len(seen)
        /\ \A i \in 1..Len(seen) :
             /\ counts[i].k = ToStr(seen[i])
             /\ counts[i].v = Occurrences(ser.values, seen[i])

\* C20: head(n) with n >= 0 returns a new Series of the first min(n, length)
\* values in their order: none for n = 0, all for n above the length; the
\* call without n is the call with DefaultN.
C20_HeadContract ==
  (sres.op = "head" /\ sres.i >= 0)
  => LET h == sres.out.ret.values
     IN /\ sres.out.ok
        /\ sres.out.ret.id # ser.id
        /\ Len(h) = Min2(sres.i, Len(ser.values))
        /\ \A i \in 1..Len(h) : h[i] = ser.values[i]
        /\ sres.i = 0 => h = <<>>
        /\ sres.i > Len(ser.values) => h = ser.values

C20_Witness ==
  /\ sres.op = "head" /\ sres.i = 2
  /\ ser.values = <<Num(2), Str("1"), Null, Num(1)>>
  /\ sres.out.ret.values = <<Num(2), Str("1")>>


\* C21: tail(n) with n >= 0 returns a new Series of the last min(n, length)
\* values in their order: all of them for every n at or above the length,
\* none for n = 0.
C21_TailContract ==
  (sres.op = "tail" /\ sres.i >= 0)
  => LET h == sres.out.ret.values
         len == Len(ser.values)
         m == Min2(sres.i, len)
     IN /\ sres.out.ok
        /\ sres.out.ret.id # ser.id
        /\ Len(h) = m
        /\ \A i \in 1..Len(h) : h[i] = ser.values[len - m + i]
        /\ sres.i = 0 => h = <<>>
        /\ sres.i >= len => h = ser.values


\* C22: head(n) and tail(n) with n >= 0 on a constructed table do not fail
\* and return a table with the column names of the receiver in their order,
\* each column holding what Series.head(n) / Series.tail(n) returns for the
\* column of the receiver, min(n, rows) values in every column; the receiver
\* is left as it was.
C22_HeadTailContract ==
  [][(res'.op \in {"head", "tail"} /\ res'.i >= 0)
      => LET n == res'.i
             out == res'.out
             SeriesOp(c) == IF res'.op = "head" THEN Series_head(c, n).ret
                            ELSE Series_tail(c, n).ret
         IN /\ out.ok
            /\ out.self = df
            /\ out.ret.exists
            /\ ObjKeys(out.ret.columns) = ObjKeys(df.columns)
            /\ \A c \in 1..Len(df.columns) :
                 /\ out.ret.columns[c].v.values = SeriesOp(df.columns[c].v).values
                 /\ Len(out.ret.columns[c].v.values)
                      = Min2(n, Len(df.columns[c].v.values))]_vars


\* The statistics of a table that take an optional column name.
Statistics == {"sum", "max", "min", "mean", "median", "mode"}

\* C23: sum, max, min, mean, median and mode called without a column do not
\* fail and return one entry per column, in the order of the columns, holding
\* what the Series method returns for the column; for sum, max, min, mean and
\* median a column with a value that is no number gives null and a column of
\* numbers gives a number.
C23_WholeTableStatistics ==
  (res.op \in Statistics /\ ~res.k.given)
  => LET m == res.out.ret
     IN /\ res.out.ok
        /\ Len(m) = Len(df.columns)
        /\ \A c \in 1..Len(df.columns) :
             LET column == df.columns[c].v
             IN /\ m[c].k = df.columns[c].k
                /\ m[c].v = SeriesCall(res.op, column, TRUE).ret
                /\ (res.op # "mode" /\ ~AllNumbers(column.values))
                     => m[c].v = Null
                /\ (res.op # "mode" /\ AllNumbers(column.values))
                     => m[c].v.t = "number"

C23_Witness ==
  /\ res.op = "sum" /\ ~res.k.given
  /\ ObjKeys(df.columns) = <<"a", "">>
  /\ df.columns[1].v.values = <<Num(1), Num(2)>>
  /\ df.columns[2].v.values = <<Str("x"), Num(2)>>
  /\ res.out.ret = <<[k |-> "a", v |-> Num(3)], [k |-> "", v |-> Null]>>


\* C24: sum, max, min, mean, median, mode, unique and valueCounts called with
\* the name of a column of the table, the empty name included, return what
\* the Series method returns for that column.
C24_ColumnStatistic ==
  (/\ res.op \in Statistics \cup {"unique", "valueCounts"}
   /\ res.k.given
   /\ ObjHas(df.columns, res.k.name))
  => /\ res.out.ok
     /\ res.out.ret
          = SeriesCall(res.op, ObjGet(df.columns, res.k.name), res.flag).ret


\* The mapping from each column name to what the Series method returns for
\* the column.
PerColumn(table, method) ==
  [c \in 1..Len(table.columns) |->
     [k |-> table.columns[c].k,
      v |-> SeriesCall(method, table.columns[c].v, TRUE).ret]]

\* describe() of the whole table: one per-column mapping for each statistic.
WholeTableDescription(table) ==
  [max |-> PerColumn(table, "max"), min |-> PerColumn(table, "min"),
   sum |-> PerColumn(table, "sum"), mean |-> PerColumn(table, "mean"),
   median |-> PerColumn(table, "median"), mode |-> PerColumn(table, "mode")]

C26_ApplyContract ==
  [][(res'.op = "apply")
      => LET out == res'.out
             fn == res'.fn
             calls == out.log
             rows == RowCount(df)
         IN /\ out.ok
            /\ out.self = df
            /\ res'.i = 0
                 => /\ Len(calls) = Len(df.columns)
                    /\ Len(out.ret) = Len(df.columns)
                    /\ \A c \in 1..Len(df.columns) :
                         /\ calls[c].series = df.columns[c].v
                         /\ calls[c].label = df.columns[c].k
                         /\ out.ret[c].k = df.columns[c].k
                         /\ out.ret[c].v
                              = CallFn(fn, df.columns[c].v, df.columns[c].k)
            /\ res'.i = 1
                 => /\ Len(calls) = rows
                    /\ Len(out.ret) = rows
                    /\ \A r \in 1..rows :
                         /\ calls[r].label = r - 1
                         /\ calls[r].series.values
                              = [c \in 1..Len(df.columns) |->
                                   df.columns[c].v.values[r]]
                         /\ out.ret[r] = CallFn(fn, calls[r].series, r - 1)]_vars


\* C27: on a constructed table length() is the length of every column,
\* whatever the columns are called, numColumns() is the number of columns,
\* columnNames() lists the names in the order of the columns, and shape() is
\* the pair of length() and numColumns().
C27_Accessors ==
  /\ (res.op = "length")
       => /\ res.out.ok
          /\ \A c \in 1..Len(df.columns) :
               res.out.ret = Len(df.columns[c].v.values)
  /\ (res.op = "numColumns")
       => res.out.ok /\ res.out.ret = Len(df.columns)
  /\ (res.op = "columnNames")
       => /\ res.out.ok
          /\ res.out.ret = [c \in 1..Len(df.columns) |-> df.columns[c].k]
  /\ (res.op = "shape")
       => /\ res.out.ok
          /\ res.out.ret = <<DataFrame_length(df).ret, DataFrame_numColumns(df).ret>>
          /\ \A c \in 1..Len(df.columns) :
               res.out.ret[1] = Len(df.columns[c].v.values)


\* C28: iloc(rowIndex, colIndex) with 0 <= rowIndex < number of rows and
\* 0 <= colIndex < number of columns returns the value at that row of that
\* column; with either index outside its range it fails, and iloc(rowIndex)
\* with rowIndex outside its range fails.
C28_IlocRange ==
  (res.op = "iloc")
  => LET rowInRange == res.i >= 0 /\ res.i < RowCount(df)
         colInRange == res.j.index >= 0 /\ res.j.index < Len(df.columns)
     IN /\ (res.j.given /\ rowInRange /\ colInRange)
             => /\ res.out.ok
                /\ res.out.ret = df.columns[res.j.index + 1].v.values[res.i + 1]
        /\ (res.j.given /\ ~(rowInRange /\ colInRange)) => ~res.out.ok
        /\ (~res.j.given /\ ~rowInRange) => ~res.out.ok


\* C29: sum, max, min, mean, median, mode, describe, unique and valueCounts
\* called with a name that is no column of the table throw the error that
\* names the missing column, E_LOG_COLUMN, and return nothing.
C29_MissingColumn ==
  (/\ res.op \in Statistics \cup {"describe", "unique", "valueCounts"}
   /\ res.k.given
   /\ ~ObjHas(df.columns, res.k.name))
  => /\ ~res.out.ok
     /\ res.out.err = E_LOG_COLUMN
     /\ res.out.ret = Undefined


\* C30: valueCounts, in either order, returns one entry for each value of
\* unique() and its counts add up to length(); values that unique() keeps
\* apart are not counted under one entry.
C30_ValueCountsPartition ==
  (sres.op = "valueCounts")
  => LET counts == sres.out.ret
         distinct == Series_unique(ser).ret.values
     IN /\ sres.out.ok
        /\ Len(counts) = Len(distinct)
        /\ IntSum([i \in 1..Len(counts) |-> Num(counts[i].v)]) = Len(ser.values)

====
